---- MODULE Spec2Model ----
(***************************************************************************)
(* A model of backend/server.py: the users, coupons and orders collections *)
(* of the document store and the request handlers that read and write      *)
(* them.  A handler that awaits the store more than once is split at its   *)
(* awaits: the request waits in `inflight` between two store operations,   *)
(* and any other handler may run in between.  Money is in integer cents.   *)
(***************************************************************************)
EXTENDS Integers, Sequences, FiniteSets, TLC

VARIABLES users, orders, coupons, inflight, resp, discount_amount,
          nextUserId, nextOrderId, clock, race

vars == <<users, orders, coupons, inflight, resp, discount_amount,
          nextUserId, nextOrderId, clock, race>>

\* Bounds of the model.
MaxOrders == 1
MaxInflight == 1
MaxUsers == 2
MaxRegistering == 2
MaxCoupons == 4

\* Optional[T]: None, or a value.
None == <<>>
Some(x) == <<x>>

Min(S) == CHOOSE m \in S : \A n \in S : m <= n

\* The response a handler sends: the handler's name and the HTTP status code.
Response(handler, status_code) == [handler |-> handler, status_code |-> status_code]

----------------------------------------------------------------------------
\* The document store (motor / MongoDB collections), as the handlers use it.

\* find_one: the first of the documents of the collection that match, or
\* None; `matching` is the set of their positions.
FindOne(coll, matching) ==
    IF matching = {} THEN None ELSE Some(coll[Min(matching)])

\* update_one with $set: the first matching document is rewritten;
\* modified_count counts a document only when the write changed it.
\* `matching` is the set of positions of the documents that match, and
\* `written` gives each document as the $set would leave it.
UpdateOne(coll, matching, written) ==
    IF matching = {}
    THEN [coll |-> coll, matched_count |-> 0, modified_count |-> 0]
    ELSE LET i == Min(matching)
         IN  [coll |-> [coll EXCEPT ![i] = written[i]],
              matched_count |-> 1,
              modified_count |-> IF written[i] = coll[i] THEN 0 ELSE 1]

----------------------------------------------------------------------------
\* Identity and tokens.

Roles == {"customer", "admin", "delivery_person"}

hash_password(password) == <<"bcrypt", password>>

\* The document register builds for a new user.
UserDoc(user_id, user_data) ==
    [id |-> user_id,
     name |-> user_data.name,
     email |-> user_data.email,
     password |-> hash_password(user_data.password),
     user_type |-> user_data.user_type,
     phone |-> None,
     address |-> None,
     is_available |-> TRUE]

\* A token is its payload and whether its signature verifies under SECRET_KEY.
create_token(user_id, email, user_type) ==
    [signed |-> TRUE,
     payload |-> [user_id |-> user_id, email |-> email, user_type |-> user_type]]

\* decode_token: the payload, or None where the code raises 401.
decode_token(token) ==
    IF token.signed THEN Some(token.payload) ELSE None

\* The tokens login hands out: one per stored user.
IssuedTokens == {create_token(users[i].id, users[i].email, users[i].user_type) :
                    i \in 1..Len(users)}

\* What a caller may present: an issued token, or a token that names an admin
\* and has a signature that does not verify.
Tokens ==
    IssuedTokens \cup {[t EXCEPT !.signed = FALSE] :
                          t \in {x \in IssuedTokens : x.payload.user_type = "admin"}}

----------------------------------------------------------------------------
\* Orders.

\* The status vocabulary; update_order_status accepts any string, of which
\* "Preparing" stands for the intermediate ones.
Statuses == {"Placed", "Assigned", "Preparing", "Delivered", "Cancelled"}

Pizza == [id |-> "f1", name |-> "Margherita Pizza", price |-> 1299,
          quantity |-> 1, image |-> "img"]

\* The request bodies of POST /orders/create that the model submits.
OrderInputs ==
    { [items |-> <<>>, total |-> 0, payment_method |-> "cash",
       delivery_address |-> "1 Main St", coupon_code |-> None,
       discount_amount |-> 0],
      [items |-> <<Pizza>>, total |-> 4500, payment_method |-> "card",
       delivery_address |-> "1 Main St", coupon_code |-> Some("WELCOME10"),
       discount_amount |-> 500] }

\* The request bodies of POST /orders/{id}/review.
ReviewInputs == { [rating |-> 5, review |-> "good"], [rating |-> 1, review |-> "bad"] }

\* The order ids a caller may name: those issued so far and one never issued.
OrderIdArgs == 1..(MaxOrders + 1)

OrderDoc(order_id, user_id, user, order_data, now) ==
    [id |-> order_id,
     customer_id |-> user_id,
     customer_name |-> user.name,
     items |-> order_data.items,
     total |-> order_data.total,
     payment_method |-> order_data.payment_method,
     delivery_address |-> order_data.delivery_address,
     coupon_code |-> order_data.coupon_code,
     discount_amount |-> order_data.discount_amount,
     status |-> "Placed",
     delivery_person_id |-> None,
     delivery_person_name |-> None,
     timestamp |-> now,
     rating |-> None,
     review |-> None]

Creating == {r \in inflight : r.op = "create_order"}

\* An empty filter: every order matches.
OrdersWithAnyId(order_id) == 1..Len(orders)

\* The filter {"id": order_id} on the orders collection.
OrdersWithId(order_id) == {i \in 1..Len(orders) : orders[i].id = order_id}

\* What create_order does up to its insert: decode the token, look the caller
\* up, build the document.  The bare except turns every failure into 401.
\* `request` is the request that goes on to the insert, if one does.
CreateOrderFindResult(token, order_data) ==
    LET payload == decode_token(token)
        user == IF payload = None THEN None
                ELSE FindOne(users, {i \in 1..Len(users) : users[i].id = payload[1].user_id})
    IN  IF payload = None \/ user = None
        THEN [request |-> None, resp |-> Some(Response("create_order", 401))]
        ELSE [request |-> Some([op |-> "create_order",
                                doc |-> OrderDoc(nextOrderId, payload[1].user_id,
                                                 user[1], order_data, clock)]),
              resp |-> None]

CreateOrderFind(token, order_data) ==
    LET out == CreateOrderFindResult(token, order_data)
    IN  /\ Cardinality(inflight) < MaxInflight
        /\ Len(orders) + Cardinality(Creating) < MaxOrders
        /\ IF out.request = None
           THEN /\ resp' = out.resp[1]
                /\ UNCHANGED <<inflight, nextOrderId, clock>>
           ELSE /\ inflight' = inflight \cup {out.request[1]}
                /\ nextOrderId' = nextOrderId + 1
                /\ clock' = clock + 1
                /\ UNCHANGED resp
        /\ UNCHANGED <<users, orders, coupons, discount_amount, nextUserId>>

\* create_order's insert_one and its response.
CreateOrderInsert(r) ==
    /\ r.op = "create_order"
    /\ orders' = Append(orders, r.doc)
    /\ inflight' = inflight \ {r}
    /\ resp' = Response("create_order", 200)
    /\ UNCHANGED <<users, coupons, discount_amount, nextUserId, nextOrderId, clock>>

\* The $set document of add_review.
ReviewSet(d, review_data) ==
    [d EXCEPT !.rating = Some(review_data.rating),
              !.review = Some(review_data.review)]

\* add_review's answer to the update's result.
ReviewResponse(result) ==
    Response("add_review", IF result.modified_count = 0 THEN 404 ELSE 200)

\* What add_review does: the orders collection it leaves and its response.
AddReviewResult(order_id, review_data, token) ==
    LET payload == decode_token(token)
        result == UpdateOne(orders, OrdersWithId(order_id),
                            [i \in 1..Len(orders) |-> ReviewSet(orders[i], review_data)])
    IN  IF payload = None
        THEN [orders |-> orders, resp |-> Response("add_review", 401)]
        ELSE [orders |-> result.coll, resp |-> ReviewResponse(result)]

add_review(order_id, review_data, token) ==
    LET out == AddReviewResult(order_id, review_data, token)
    IN  /\ orders' = out.orders
        /\ resp' = out.resp
        /\ UNCHANGED <<users, coupons, inflight, discount_amount,
                       nextUserId, nextOrderId, clock>>

\* The gate without its check of the role.
MaySetStatusAnyRole(payload) == payload.user_type \in Roles

\* The role gate of update_order_status.
MaySetStatus(payload) == payload.user_type \in {"admin", "delivery_person"}

\* A write of the whole document as create_order built it, with the new status.
StatusSetWholeDocument(d, status_data) ==
    [d EXCEPT !.status = status_data.status,
              !.delivery_person_id = None,
              !.delivery_person_name = None]

\* The $set document of update_order_status.
StatusSet(d, status_data) == [d EXCEPT !.status = status_data.status]

\* The answer without the check of modified_count.
StatusResponseIgnoresCount(result) == Response("update_order_status", 200)

\* update_order_status's answer to the update's result.
StatusResponse(result) ==
    Response("update_order_status", IF result.modified_count = 0 THEN 404 ELSE 200)

\* What update_order_status does: the orders collection it leaves and its
\* response.
UpdateOrderStatusResult(order_id, status_data, token) ==
    LET payload == decode_token(token)
        result == UpdateOne(orders, OrdersWithId(order_id),
                            [i \in 1..Len(orders) |-> StatusSet(orders[i], status_data)])
    IN  IF payload = None
        THEN [orders |-> orders, resp |-> Response("update_order_status", 401)]
        ELSE IF ~MaySetStatus(payload[1])
        THEN [orders |-> orders, resp |-> Response("update_order_status", 403)]
        ELSE [orders |-> result.coll, resp |-> StatusResponse(result)]

update_order_status(order_id, status_data, token) ==
    LET out == UpdateOrderStatusResult(order_id, status_data, token)
    IN  /\ orders' = out.orders
        /\ resp' = out.resp
        /\ UNCHANGED <<users, coupons, inflight, discount_amount,
                       nextUserId, nextOrderId, clock>>

\* The gate of update_order_status in the place of the admin gate.
MayAssignStaff(payload) == payload.user_type \in {"admin", "delivery_person"}

\* The role gate of assign_delivery_person.
MayAssign(payload) == payload.user_type = "admin"

\* The lookup by id alone.
FindDeliveryPersonAnyRole(delivery_person_id) ==
    FindOne(users, {i \in 1..Len(users) : users[i].id = delivery_person_id})

\* The lookup of the delivery person: by id and by role.
FindDeliveryPerson(delivery_person_id) ==
    FindOne(users, {i \in 1..Len(users) :
                       /\ users[i].id = delivery_person_id
                       /\ users[i].user_type = "delivery_person"})

\* What assign_delivery_person does up to its update: the gates and the
\* lookup.  `request` is the request that goes on to the update, if one does.
AssignFindResult(order_id, assignment, token) ==
    LET payload == decode_token(token)
        delivery_person == FindDeliveryPerson(assignment.delivery_person_id)
    IN  IF payload = None
        THEN [request |-> None, resp |-> Some(Response("assign_delivery_person", 401))]
        ELSE IF ~MayAssign(payload[1])
        THEN [request |-> None, resp |-> Some(Response("assign_delivery_person", 403))]
        ELSE IF delivery_person = None
        THEN [request |-> None, resp |-> Some(Response("assign_delivery_person", 404))]
        ELSE [request |-> Some([op |-> "assign_delivery_person",
                                order_id |-> order_id,
                                assignment |-> assignment,
                                delivery_person |-> delivery_person[1]]),
              resp |-> None]

AssignFind(order_id, assignment, token) ==
    LET out == AssignFindResult(order_id, assignment, token)
    IN  /\ Cardinality(inflight) < MaxInflight
        /\ IF out.request = None
           THEN resp' = out.resp[1] /\ inflight' = inflight
           ELSE inflight' = inflight \cup {out.request[1]} /\ UNCHANGED resp
        /\ UNCHANGED <<users, orders, coupons, discount_amount,
                       nextUserId, nextOrderId, clock>>

\* The $set document without the status.
AssignSetKeepsStatus(d, assignment, delivery_person) ==
    [d EXCEPT !.delivery_person_id = Some(assignment.delivery_person_id),
              !.delivery_person_name = Some(delivery_person.name)]

\* The $set document of assign_delivery_person.
AssignSet(d, assignment, delivery_person) ==
    [d EXCEPT !.delivery_person_id = Some(assignment.delivery_person_id),
              !.delivery_person_name = Some(delivery_person.name),
              !.status = "Assigned"]

\* assign_delivery_person's answer to the update's result.
AssignResponse(result) ==
    Response("assign_delivery_person", IF result.modified_count = 0 THEN 404 ELSE 200)

\* What assign_delivery_person's update does: the orders collection it
\* leaves and its response.
AssignUpdateResult(r) ==
    LET result == UpdateOne(orders, OrdersWithId(r.order_id),
                            [i \in 1..Len(orders) |->
                                AssignSet(orders[i], r.assignment, r.delivery_person)])
    IN  [orders |-> result.coll, resp |-> AssignResponse(result)]

AssignUpdate(r) ==
    LET out == AssignUpdateResult(r)
    IN  /\ r.op = "assign_delivery_person"
        /\ orders' = out.orders
        /\ resp' = out.resp
        /\ inflight' = inflight \ {r}
        /\ UNCHANGED <<users, coupons, discount_amount,
                       nextUserId, nextOrderId, clock>>

\* The request bodies of PATCH .../assign-delivery: every stored user's id.
AssignInputs == {[delivery_person_id |-> users[i].id] : i \in 1..Len(users)}

StatusInputs == {[status |-> s] : s \in Statuses}

----------------------------------------------------------------------------
\* Registration.

\* The request bodies of POST /auth/register that the model submits.
RegisterInputs ==
    [name : {"alice", "bob"}, email : {"a@x", "b@x"}, password : {"pw"},
     user_type : Roles]

Registering == {r \in inflight : r.op = "register"}

\* register up to its insert: the lookup by email, the 400 when it finds a
\* user, the new document.
RegisterFind(user_data) ==
    LET existing == FindOne(users, {i \in 1..Len(users) : users[i].email = user_data.email})
    IN  /\ IF existing # None
           THEN /\ resp' = Response("register", 400)
                /\ UNCHANGED <<inflight, nextUserId>>
           ELSE /\ Cardinality(Registering) < MaxRegistering
                /\ Len(users) + Cardinality(Registering) < MaxUsers
                /\ inflight' = inflight \cup
                       {[op |-> "register", doc |-> UserDoc(nextUserId, user_data)]}
                /\ nextUserId' = nextUserId + 1
                /\ UNCHANGED resp
        /\ UNCHANGED <<users, orders, coupons, discount_amount, nextOrderId, clock>>

\* register's insert_one and its response.
RegisterInsert(r) ==
    /\ r.op = "register"
    /\ users' = Append(users, r.doc)
    /\ inflight' = inflight \ {r}
    /\ resp' = Response("register", 200)
    /\ UNCHANGED <<orders, coupons, discount_amount, nextUserId, nextOrderId, clock>>

----------------------------------------------------------------------------
\* Coupons.  Amounts are in cents; a percentage of an amount is kept in
\* hundredths of a cent until it is rounded.

CouponDoc(coupon_id, code, discount_type, discount_value, min_order_value, max_discount) ==
    [id |-> coupon_id,
     code |-> code,
     discount_type |-> discount_type,
     discount_value |-> discount_value,
     min_order_value |-> min_order_value,
     max_discount |-> max_discount,
     valid_until |-> "2026-12-31",
     active |-> TRUE]

\* The coupons seed_data inserts at startup.
SeedCoupons ==
    << CouponDoc(1, "WELCOME10", "percentage", 10, 1500, Some(500)),
       CouponDoc(2, "SAVE5", "fixed", 500, 2000, None),
       CouponDoc(3, "FIRSTORDER", "percentage", 15, 2500, Some(1000)) >>

\* str.upper on the codes the model submits.
Upper(code) ==
    CASE code = "welcome10" -> "WELCOME10"
      [] code = "firstorder" -> "FIRSTORDER"
      [] code = "promo" -> "PROMO"
      [] OTHER -> code

\* The request bodies of POST /coupons/create that the model submits.
CouponInputs ==
    [code : {"promo", "welcome10"}, discount_type : {"percentage", "fixed"},
     discount_value : {10, 25}, min_order_value : {0, 1500},
     max_discount : {None, Some(0), Some(500)}]

\* The request bodies of POST /coupons/validate that the model submits.
ValidateInputs ==
    [code : {"welcome10", "WELCOME10", "SAVE5", "firstorder", "promo", "NOPE"},
     order_total : {1000, 1005, 1999, 2000, 4500, 10000}]

create_coupon(coupon_data) ==
    /\ Len(coupons) < MaxCoupons
    /\ coupons' = Append(coupons,
                         CouponDoc(Len(coupons) + 1, Upper(coupon_data.code),
                                   coupon_data.discount_type,
                                   coupon_data.discount_value,
                                   coupon_data.min_order_value,
                                   coupon_data.max_discount))
    /\ resp' = Response("create_coupon", 200)
    /\ UNCHANGED <<users, orders, inflight, discount_amount,
                   nextUserId, nextOrderId, clock>>

\* Python's truth value of an Optional[float]: None and 0 are false.
Truthy(opt) == opt # None /\ opt[1] # 0

\* The discount validate_coupon computes, in hundredths of a cent.
Discount(coupon, order_total) ==
    IF coupon.discount_type = "percentage"
    THEN LET discount == order_total * coupon.discount_value
         IN  IF Truthy(coupon.max_discount)
             THEN Min({discount, 100 * coupon.max_discount[1]})
             ELSE discount
    ELSE 100 * coupon.discount_value

\* round(x, 2): the cents nearest to an amount given in hundredths of a cent.
\* A float that stands for an exact half cent lies a little above or below it,
\* and round goes either way.
Round2(h) ==
    LET q == h \div 100
        rem == h % 100
    IN  IF rem < 50 THEN {q} ELSE IF rem > 50 THEN {q + 1} ELSE {q, q + 1}

\* The active coupon validate_coupon looks up.
FindCoupon(code) ==
    FindOne(coupons, {i \in 1..Len(coupons) :
                         coupons[i].code = Upper(code) /\ coupons[i].active})

validate_coupon(data) ==
    LET coupon == FindCoupon(data.code)
    IN  /\ IF coupon = None
           THEN /\ resp' = Response("validate_coupon", 404)
                /\ discount_amount' = None
           ELSE IF data.order_total < coupon[1].min_order_value
           THEN /\ resp' = Response("validate_coupon", 400)
                /\ discount_amount' = None
           ELSE /\ resp' = Response("validate_coupon", 200)
                /\ \E c \in Round2(Discount(coupon[1], data.order_total)) :
                      discount_amount' = Some(c)
        /\ UNCHANGED <<users, orders, coupons, inflight,
                       nextUserId, nextOrderId, clock>>

\* No race is being watched.
NoRace == [active |-> FALSE]

----------------------------------------------------------------------------
\* The store after startup: no users, no orders, the seeded coupons.

Startup ==
    /\ users = <<>>
    /\ orders = <<>>
    /\ coupons = SeedCoupons
    /\ inflight = {}
    /\ resp = Response("none", 0)
    /\ discount_amount = None
    /\ nextUserId = 1
    /\ nextOrderId = 1
    /\ clock = 1
    /\ race = NoRace

\* Registration: concurrent register requests on the empty store.
NextRegister ==
    \/ \E d \in RegisterInputs : RegisterFind(d) /\ UNCHANGED race
    \/ \E r \in inflight : RegisterInsert(r) /\ UNCHANGED race

SpecRegister == Startup /\ [][NextRegister]_vars

\* Coupons: creation and validation on the seeded store.
NextCoupon ==
    \/ \E d \in CouponInputs : create_coupon(d) /\ UNCHANGED race
    \/ \E d \in ValidateInputs : validate_coupon(d) /\ UNCHANGED race

SpecCoupon == Startup /\ [][NextCoupon]_vars

----------------------------------------------------------------------------
\* The order lifecycle, on a store where four users have registered.

RegisteredUsers ==
    << UserDoc(1, [name |-> "alice", email |-> "alice@x", password |-> "pw",
                   user_type |-> "customer"]),
       UserDoc(2, [name |-> "bob", email |-> "bob@x", password |-> "pw",
                   user_type |-> "admin"]),
       UserDoc(3, [name |-> "carol", email |-> "carol@x", password |-> "pw",
                   user_type |-> "delivery_person"]),
       UserDoc(4, [name |-> "dave", email |-> "dave@x", password |-> "pw",
                   user_type |-> "delivery_person"]) >>

Init ==
    /\ users = RegisteredUsers
    /\ orders = <<>>
    /\ coupons = SeedCoupons
    /\ inflight = {}
    /\ resp = Response("none", 0)
    /\ discount_amount = None
    /\ nextUserId = Len(RegisteredUsers) + 1
    /\ nextOrderId = 1
    /\ clock = 1
    /\ race = NoRace

Next ==
    \/ \E t \in Tokens, d \in OrderInputs :
          CreateOrderFind(t, d) /\ UNCHANGED race
    \/ \E r \in inflight : CreateOrderInsert(r) /\ UNCHANGED race
    \/ \E id \in OrderIdArgs, d \in ReviewInputs, t \in Tokens :
          add_review(id, d, t) /\ UNCHANGED race
    \/ \E id \in OrderIdArgs, d \in StatusInputs, t \in Tokens :
          update_order_status(id, d, t) /\ UNCHANGED race
    \/ \E id \in OrderIdArgs, d \in AssignInputs, t \in Tokens :
          AssignFind(id, d, t) /\ UNCHANGED race
    \/ \E r \in inflight : AssignUpdate(r) /\ UNCHANGED race

Spec == Init /\ [][Next]_vars

----------------------------------------------------------------------------
\* One status update and one delivery assignment racing on one stored order.

\* The tokens of the callers update_order_status admits.
StaffTokens == {t \in IssuedTokens : t.payload.user_type \in {"admin", "delivery_person"}}

AdminTokens == {t \in IssuedTokens : t.payload.user_type = "admin"}

\* The stored user with an id.
UserById(user_id) == FindOne(users, {i \in 1..Len(users) : users[i].id = user_id})

\* An order alice placed, after any updates of its status and assignment.
RaceOrders ==
    { [OrderDoc(1, 1, RegisteredUsers[1],
                CHOOSE d \in OrderInputs : d.items # <<>>, 1)
         EXCEPT !.status = s,
                !.delivery_person_id = p[1],
                !.delivery_person_name = p[2]] :
        s \in Statuses,
        p \in {<<None, None>>, <<Some(3), Some("carol")>>, <<Some(4), Some("dave")>>} }

InitRace ==
    /\ users = RegisteredUsers
    /\ orders \in {<<o>> : o \in RaceOrders}
    /\ coupons = SeedCoupons
    /\ inflight = {}
    /\ resp = Response("none", 0)
    /\ discount_amount = None
    /\ nextUserId = Len(RegisteredUsers) + 1
    /\ nextOrderId = 2
    /\ clock = 2
    /\ \E sd \in StatusInputs, st \in StaffTokens, at \in AdminTokens,
          a \in {x \in AssignInputs : FindDeliveryPerson(x.delivery_person_id) # None} :
          race = [active |-> TRUE, order_id |-> 1, before |-> orders[1],
                  status_data |-> sd, set_token |-> st,
                  assignment |-> a, assign_token |-> at,
                  started |-> FALSE, done |-> <<>>]

RaceSetStatus ==
    /\ "update_order_status" \notin {race.done[i] : i \in 1..Len(race.done)}
    /\ update_order_status(race.order_id, race.status_data, race.set_token)
    /\ race' = [race EXCEPT !.done = Append(@, "update_order_status")]

RaceAssignFind ==
    /\ ~race.started
    /\ AssignFind(race.order_id, race.assignment, race.assign_token)
    /\ race' = [race EXCEPT !.started = TRUE, !.done = Append(@, "AssignFind")]

RaceAssignUpdate ==
    /\ \E r \in inflight : AssignUpdate(r)
    /\ race' = [race EXCEPT !.done = Append(@, "AssignUpdate")]

NextRace == RaceSetStatus \/ RaceAssignFind \/ RaceAssignUpdate

SpecRace == InitRace /\ [][NextRace]_vars

----------------------------------------------------------------------------
\* Properties of the order lifecycle.

OrderIndex == 1..Len(orders)

HasOrder(order_id) == \E i \in OrderIndex : orders[i].id = order_id

Assigning == {r \in inflight : r.op = "assign_delivery_person"}

CustomerTokens == {t \in IssuedTokens : t.payload.user_type = "customer"}

UnsignedTokens == {t \in Tokens : ~t.signed}

IsDeliveryPerson(user_id) ==
    \E i \in 1..Len(users) :
        users[i].id = user_id /\ users[i].user_type = "delivery_person"

\* C1, first part: an assignment by an admin to a delivery person goes on to
\* the update with that person's document.
C1Find ==
    \A id \in OrderIdArgs, a \in AssignInputs, t \in AdminTokens :
        IsDeliveryPerson(a.delivery_person_id) =>
            AssignFindResult(id, a, t) =
                [request |-> Some([op |-> "assign_delivery_person", order_id |-> id,
                                   assignment |-> a,
                                   delivery_person |-> UserById(a.delivery_person_id)[1]]),
                 resp |-> None]

\* C1, second part: on an existing order, whatever its status, the update
\* leaves the person's id, the person's name and status Assigned.
C1Update ==
    \A r \in Assigning, i \in OrderIndex :
        orders[i].id = r.order_id =>
            LET o == AssignUpdateResult(r).orders[i]
            IN  /\ o.delivery_person_id = Some(r.assignment.delivery_person_id)
                /\ o.delivery_person_name =
                       Some(UserById(r.assignment.delivery_person_id)[1].name)
                /\ o.status = "Assigned"

\* C1, third part: no step writes only some of the three fields.
C1Atomic ==
    \A i \in OrderIndex :
        (\/ orders'[i].delivery_person_id # orders[i].delivery_person_id
         \/ orders'[i].delivery_person_name # orders[i].delivery_person_name) =>
            /\ orders'[i].delivery_person_id # None
            /\ orders'[i].delivery_person_name # None
            /\ orders'[i].status = "Assigned"

\* C1: for every existing order, whatever its status, and every delivery
\* person, assign_delivery_person called by an admin leaves the order with that
\* person's id, that person's name and status Assigned, written in one step.
C1Thm == [](C1Find /\ C1Update) /\ [][C1Atomic]_vars

\* C1: an order that had been reviewed has just been assigned to dave.
C1Witness ==
    \E i \in OrderIndex :
        /\ orders[i].status = "Assigned"
        /\ orders[i].delivery_person_id = Some(4)
        /\ orders[i].delivery_person_name = Some("dave")
        /\ orders[i].rating # None
        /\ resp = Response("assign_delivery_person", 200)

Terminal == {"Delivered", "Cancelled"}

C2Change ==
    \A i \in OrderIndex :
        (orders[i].status \in Terminal /\ orders'[i].status # orders[i].status) =>
            \/ \E t \in StaffTokens, d \in StatusInputs :
                  /\ update_order_status(orders[i].id, d, t)
                  /\ orders'[i].status = d.status
            \/ \E r \in Assigning :
                  /\ r.order_id = orders[i].id
                  /\ AssignUpdate(r)
                  /\ orders'[i].status = "Assigned"

\* add_review by any caller, and update_order_status by a customer or with a
\* token that does not verify, leave the status of every order.
C2Keep ==
    \A id \in OrderIdArgs, i \in OrderIndex :
        /\ \A d \in ReviewInputs, t \in Tokens :
              AddReviewResult(id, d, t).orders[i].status = orders[i].status
        /\ \A d \in StatusInputs, t \in CustomerTokens \cup UnsignedTokens :
              UpdateOrderStatusResult(id, d, t).orders[i].status = orders[i].status

\* A step that create_order answers leaves every stored order.
C2Create ==
    (resp'.handler = "create_order" \/ Len(orders') # Len(orders)) =>
        \A i \in OrderIndex : orders'[i] = orders[i]

C3Thm ==
    \A id \in OrderIdArgs :
        ~HasOrder(id) =>
            /\ \A d \in StatusInputs, t \in StaffTokens :
                  UpdateOrderStatusResult(id, d, t) =
                      [orders |-> orders, resp |-> Response("update_order_status", 404)]
            /\ \A d \in ReviewInputs, t \in IssuedTokens :
                  AddReviewResult(id, d, t) =
                      [orders |-> orders, resp |-> Response("add_review", 404)]
            /\ \A r \in Assigning :
                  r.order_id = id =>
                      AssignUpdateResult(r) =
                          [orders |-> orders,
                           resp |-> Response("assign_delivery_person", 404)]

\* C3: a review was answered 404 beside a stored order that has no review,
\* so it named an id no stored order has.
C3Witness ==
    /\ Len(orders) = 1
    /\ orders[1].rating = None
    /\ inflight = {}
    /\ resp = Response("add_review", 404)

\* C4 as claimed: on an existing order, update_order_status by an admin or a
\* delivery person answers 200 and leaves the status it was given.
C4Claim ==
    [][\A i \in OrderIndex, d \in StatusInputs, t \in StaffTokens :
          update_order_status(orders[i].id, d, t) =>
              /\ resp' = Response("update_order_status", 200)
              /\ orders'[i].status = d.status]_vars

\* C5: update_order_status by a customer and assign_delivery_person by anyone
\* but an admin answer 403, either of them with a token whose signature does
\* not verify answers 401, and none of these writes an order or goes on to an
\* update.
C5Thm ==
    \A id \in OrderIdArgs :
        /\ \A d \in StatusInputs :
              /\ \A t \in CustomerTokens :
                    UpdateOrderStatusResult(id, d, t) =
                        [orders |-> orders,
                         resp |-> Response("update_order_status", 403)]
              /\ \A t \in UnsignedTokens :
                    UpdateOrderStatusResult(id, d, t) =
                        [orders |-> orders,
                         resp |-> Response("update_order_status", 401)]
        /\ \A a \in AssignInputs :
              /\ \A t \in IssuedTokens \ AdminTokens :
                    AssignFindResult(id, a, t) =
                        [request |-> None,
                         resp |-> Some(Response("assign_delivery_person", 403))]
              /\ \A t \in UnsignedTokens :
                    AssignFindResult(id, a, t) =
                        [request |-> None,
                         resp |-> Some(Response("assign_delivery_person", 401))]

\* C5: a status update on a stored order was answered 403.
C5Witness ==
    /\ Len(orders) = 1
    /\ orders[1].status = "Placed"
    /\ resp = Response("update_order_status", 403)

C6Inv ==
    \A i \in OrderIndex :
        \/ /\ orders[i].delivery_person_id = None
           /\ orders[i].delivery_person_name = None
        \/ /\ orders[i].delivery_person_id # None
           /\ orders[i].delivery_person_name # None
           /\ \E j \in 1..Len(users) :
                 /\ users[j].id = orders[i].delivery_person_id[1]
                 /\ users[j].user_type = "delivery_person"
                 /\ users[j].name = orders[i].delivery_person_name[1]

C6Step ==
    /\ \A i \in (1..Len(orders')) \ OrderIndex :
          /\ orders'[i].delivery_person_id = None
          /\ orders'[i].delivery_person_name = None
    /\ \A i \in OrderIndex :
          (orders[i].delivery_person_id = None /\ orders'[i].delivery_person_id # None) =>
              /\ \E r \in Assigning : r.order_id = orders[i].id /\ AssignUpdate(r)
              /\ resp' = Response("assign_delivery_person", 200)

\* C6: in every state the delivery person's id and name of an order are both
\* null, or are the id and the name of one stored user whose role is
\* delivery_person; a new order has both null, and they stop being null only
\* in an assignment's update that is answered 200.
C6Thm == []C6Inv /\ [][C6Step]_vars

\* C6: an order with a delivery person.
C6Witness ==
    \E i \in OrderIndex :
        /\ orders[i].delivery_person_id = Some(3)
        /\ orders[i].delivery_person_name = Some("carol")

\* C7 as claimed: every stored order is a customer's and has a line item.
C7Claim ==
    \A i \in OrderIndex :
        /\ orders[i].items # <<>>
        /\ \E j \in 1..Len(users) :
              /\ users[j].id = orders[i].customer_id
              /\ users[j].user_type = "customer"

----------------------------------------------------------------------------
\* Properties of coupons and of registration.

\* C8 as claimed: for an active percentage coupon and a total of at least its
\* minimum, the discount is the percentage of the total when max_discount is
\* null and the smaller of that and max_discount when it is set, 0 included,
\* rounded to the cent.
C8Claim ==
    [][\A data \in ValidateInputs :
          LET coupon == FindCoupon(data.code)
          IN  (/\ coupon # None
               /\ coupon[1].discount_type = "percentage"
               /\ data.order_total >= coupon[1].min_order_value
               /\ validate_coupon(data)) =>
                  LET pct == data.order_total * coupon[1].discount_value
                      capped == IF coupon[1].max_discount = None THEN pct
                                ELSE Min({pct, 100 * coupon[1].max_discount[1]})
                  IN  \E c \in Round2(capped) : discount_amount' = Some(c)]_vars

\* C9 as claimed: no two stored users have the same email.
C9Claim ==
    \A i, j \in 1..Len(users) : i # j => users[i].email # users[j].email

----------------------------------------------------------------------------
\* Properties of the race.

RaceDone == race.active /\ Len(race.done) = 3

C10Inv ==
    race.active =>
        LET o == orders[1]
            p == race.assignment.delivery_person_id
            assigned == /\ o.delivery_person_id = Some(p)
                        /\ o.delivery_person_name = Some(UserById(p)[1].name)
        IN  /\ Len(orders) = 1
            /\ \/ assigned
               \/ /\ o.delivery_person_id = race.before.delivery_person_id
                  /\ o.delivery_person_name = race.before.delivery_person_name
            /\ o.status \in {race.before.status, race.status_data.status, "Assigned"}
            /\ RaceDone =>
                  /\ assigned
                  /\ o.status = IF race.done[3] = "AssignUpdate" THEN "Assigned"
                                ELSE race.status_data.status

\* C10: however the status update and the two steps of the assignment
\* interleave, the order ends with the assigned person's id and name and with
\* the status of whichever update ran last; on the way its delivery fields are
\* those it had or those of the assignment, both together, and its status is
\* one it had or one of the two written.
C10Thm == C10Inv

\* C10: the status update ran between the assignment's lookup and its
\* update, on an order that was Delivered and assigned to someone else.
C10Witness ==
    /\ race.active
    /\ race.done = <<"AssignFind", "update_order_status", "AssignUpdate">>
    /\ race.before.status = "Delivered"
    /\ race.before.delivery_person_id = Some(3)
    /\ race.assignment.delivery_person_id = 4
    /\ race.status_data.status = "Cancelled"
    /\ orders[1].status = "Assigned"
    /\ orders[1].delivery_person_id = Some(4)

----------------------------------------------------------------------------
\* Two orders: one that alice placed and is stored, and one that bob's
\* create_order has built and is about to insert.

FrameStored ==
    OrderDoc(1, 1, RegisteredUsers[1], CHOOSE d \in OrderInputs : d.items # <<>>, 1)

FrameCreating ==
    {[op |-> "create_order", doc |-> OrderDoc(2, 2, RegisteredUsers[2], d, 2)] :
        d \in OrderInputs}

InitFrame ==
    /\ users = RegisteredUsers
    /\ orders = <<FrameStored>>
    /\ coupons = SeedCoupons
    /\ inflight \in {{r} : r \in FrameCreating}
    /\ resp = Response("create_order", 200)
    /\ discount_amount = None
    /\ nextUserId = Len(RegisteredUsers) + 1
    /\ nextOrderId = 3
    /\ clock = 3
    /\ race = NoRace

\* The request bodies the two orders are driven with: one review, and two
\* of the statuses.
FrameReviewInputs == {d \in ReviewInputs : d.rating = 5}

FrameStatusInputs == {d \in StatusInputs : d.status \in {"Preparing", "Delivered"}}

NextFrame ==
    \/ \E r \in inflight : CreateOrderInsert(r) /\ UNCHANGED race
    \/ \E id \in OrderIdArgs, d \in FrameReviewInputs, t \in Tokens :
          add_review(id, d, t) /\ UNCHANGED race
    \/ \E id \in OrderIdArgs, d \in FrameStatusInputs, t \in Tokens :
          update_order_status(id, d, t) /\ UNCHANGED race
    \/ \E id \in OrderIdArgs, d \in AssignInputs, t \in Tokens :
          AssignFind(id, d, t) /\ UNCHANGED race
    \/ \E r \in inflight : AssignUpdate(r) /\ UNCHANGED race

SpecFrame == InitFrame /\ [][NextFrame]_vars

----------------------------------------------------------------------------
\* Properties of the stored orders' frame.

\* What create_order fixes of an order.
CreationData(d) ==
    [id |-> d.id, customer_id |-> d.customer_id, customer_name |-> d.customer_name,
     items |-> d.items, total |-> d.total, coupon_code |-> d.coupon_code,
     discount_amount |-> d.discount_amount, timestamp |-> d.timestamp]

\* update_order_status, by any caller, leaves as many orders, leaves every
\* order but the one it names, and writes at most that order's status.
C11Status ==
    \A id \in OrderIdArgs, d \in StatusInputs, t \in Tokens :
        LET out == UpdateOrderStatusResult(id, d, t).orders
        IN  /\ Len(out) = Len(orders)
            /\ \A i \in OrderIndex :
                  /\ orders[i].id # id => out[i] = orders[i]
                  /\ [out[i] EXCEPT !.status = orders[i].status] = orders[i]

\* An assignment's update leaves as many orders, leaves every order but the
\* one it names, and writes at most that order's delivery person and status.
C11Assign ==
    \A r \in Assigning :
        LET out == AssignUpdateResult(r).orders
        IN  /\ Len(out) = Len(orders)
            /\ \A i \in OrderIndex :
                  /\ orders[i].id # r.order_id => out[i] = orders[i]
                  /\ [out[i] EXCEPT !.status = orders[i].status,
                                    !.delivery_person_id = orders[i].delivery_person_id,
                                    !.delivery_person_name = orders[i].delivery_person_name]
                         = orders[i]

\* add_review, by any caller, leaves as many orders, leaves every order but
\* the one it names, and writes at most that order's rating and review.
C11Review ==
    \A id \in OrderIdArgs, d \in ReviewInputs, t \in Tokens :
        LET out == AddReviewResult(id, d, t).orders
        IN  /\ Len(out) = Len(orders)
            /\ \A i \in OrderIndex :
                  /\ orders[i].id # id => out[i] = orders[i]
                  /\ [out[i] EXCEPT !.rating = orders[i].rating,
                                    !.review = orders[i].review] = orders[i]

\* No step removes an order or changes what create_order fixed of it.
C11Step ==
    /\ Len(orders') >= Len(orders)
    /\ \A i \in OrderIndex : CreationData(orders'[i]) = CreationData(orders[i])

\* C11: no step removes an order from the store or changes a stored order's
\* id, customer_id, customer_name, items, total, coupon_code, discount_amount
\* or timestamp; update_order_status writes only status, an assignment's
\* update only delivery_person_id, delivery_person_name and status, add_review
\* only rating and review, each of the one order it names, and every other
\* order is left as it was.
C11Thm == [](C11Status /\ C11Assign /\ C11Review) /\ [][C11Step]_vars

\* C11: alice's order has been assigned, delivered and reviewed while bob's,
\* stored beside it, is as create_order built it.
C11Witness ==
    /\ Len(orders) = 2
    /\ orders[1].status = "Delivered"
    /\ orders[1].delivery_person_id = Some(3)
    /\ orders[1].rating = Some(5)
    /\ CreationData(orders[1]) = CreationData(FrameStored)
    /\ \E r \in FrameCreating : orders[2] = r.doc

====
